---- MODULE Spec2Model ----
(***************************************************************************)
(* Model of ch11/01_a3c_data.py: PROCESSES_COUNT actor processes running   *)
(* data_func push TotalReward reports, experience entries and a final None *)
(* onto a bounded multiprocessing queue; the main process pops them,       *)
(* feeds reports to the reward tracker, accumulates experience into a      *)
(* batch and, on a full batch, calls unpack_batch and applies one          *)
(* optimizer step.  unpack_batch is modelled step by step in a second      *)
(* specification (UnpackSpec) over exact rational arithmetic.              *)
(***************************************************************************)
EXTENDS Integers, Sequences, FiniteSets, TLC

\* ------------------------------------------------------------------ bounds
\* The number of actor processes (4 in the source), also the queue capacity.
PROCESSES_COUNT == 2
\* The batch length that triggers an update (128 in the source).
BATCH_SIZE == 2
\* Experience entries yielded over a run, all actors together.
MaxExp == 3
\* TotalReward reports produced over a run, all actors together.
MaxReports == 2
\* Length of the reward tracker's sliding window (100 by default).
WindowSize == 2
\* Longest batch handed to unpack_batch in UnpackSpec.
MaxBatchLen == 3
\* Experience entries put over a run in FeedSpec, all actors together.
MaxFeed == 5

\* ------------------------------------------------------- program constants
\* GAMMA = 0.99, as the exact fraction GAMMA_NUM / GAMMA_DEN.
GAMMA_NUM == 99
GAMMA_DEN == 100
REWARD_STEPS == 4
\* stop_reward of the RewardTracker.
STOP_REWARD == 18

Actors == 1..PROCESSES_COUNT

\* Means np.mean(new_rewards) can take in the model: below and above stop_reward.
RewardMeans == {17, 19}

VARIABLES
    pc,            \* actor -> position in data_func
    new_rewards,   \* actor -> new_rewards, the episode totals the last drain returned
    n_exp,         \* actor -> experience entries yielded by its exp_source
    pushed,        \* actor -> every entry the actor has put, in put order (history)
    put_at,        \* actor -> for each entry of pushed, the optimizer steps and the
                   \* step_idx at the time its put completed (history, FeedSpec only)
    train_queue,   \* actor -> the entries it has put that are not yet got, oldest first
    lpc,           \* learner position: "get", "update" or "stopped"
    batch,         \* the learner's batch
    step_idx,      \* the learner's step_idx
    total_rewards, \* the reward tracker's window
    opt_steps,     \* optimizer.step() calls so far
    train_entry,   \* the entry the last train_queue.get() returned
    popped,        \* actor -> every entry of that actor train_queue.get() returned, in order (history)
    trained,       \* every batch handed to unpack_batch, in order (history)
    last_emit,     \* the step index of the latest emission, tracker.reward(..., step_idx)
                   \* or tb_tracker.track(..., step_idx); 0 before the first
    last_track,    \* the step index of the latest tb_tracker.track emission; 0 before the first
    u_pc,          \* unpack_batch: position
    u_batch,       \* unpack_batch: the batch argument
    u_net,         \* unpack_batch: the value head, last state -> value
    u_idx,         \* unpack_batch: loop index (0-based, as enumerate)
    states,        \* unpack_batch: states list
    actions,       \* unpack_batch: actions list
    rewards,       \* unpack_batch: rewards list
    not_done_idx,  \* unpack_batch: not_done_idx list
    last_states,   \* unpack_batch: last_states list
    rewards_np,    \* unpack_batch: rewards_np array
    upc,           \* update: position in the update of one full batch
    actions_t,     \* update: actions_t, one action index per row
    vals_ref_v,    \* update: vals_ref_v, one return per row
    net_out,       \* update: what net(states_v) yields, row by row, and whether the
                   \*         float32 losses computed from it are finite
    log_prob_v,    \* update: log_prob_v, rows x actions
    value_v,       \* update: value_v, rows x 1
    adv_v,         \* update: adv_v
    log_prob_actions_v, \* update: log_prob_actions_v
    loss_policy_v, \* update: loss_policy_v as the fraction num / den
    grad,          \* update: the parameters' .grad buffers
    grads,         \* update: the grads snapshot
    applied        \* update: the gradient each optimizer.step() applied, in order (history)

actorVars == <<pc, new_rewards, n_exp, pushed, put_at>>
queueVars == <<train_queue>>
learnerVars == <<lpc, train_entry, batch, step_idx, total_rewards, opt_steps, popped, trained,
                 last_emit, last_track>>
unpackVars == <<u_pc, u_batch, u_net, u_idx, states, actions, rewards, not_done_idx,
               last_states, rewards_np>>
updateVars == <<upc, actions_t, vals_ref_v, net_out, log_prob_v, value_v, adv_v,
               log_prob_actions_v, loss_policy_v, grad, grads, applied>>
vars == <<pc, new_rewards, n_exp, pushed, put_at, train_queue, lpc, train_entry, batch, step_idx,
          total_rewards, opt_steps, popped, trained, last_emit, last_track, u_pc, u_batch, u_net, u_idx,
          states, actions, rewards, not_done_idx, last_states, rewards_np,
          upc, actions_t, vals_ref_v, net_out, log_prob_v, value_v, adv_v,
          log_prob_actions_v, loss_policy_v, grad, grads, applied>>

\* ------------------------------------------------------------------ helpers
RECURSIVE SumSeq(_)
SumSeq(s) == IF s = <<>> THEN 0 ELSE Head(s) + SumSeq(Tail(s))

\* Mutant: the report carries the first drained total instead of the mean.
Mean_First(l) == Head(l)

\* np.mean of a non-empty list whose sum is a multiple of its length
Mean(l) == SumSeq(l) \div Len(l)
\* What pop_total_rewards() returns in the model when it returns something:
\* the totals of the episodes completed since the previous call, either one
\* total below stop_reward or two totals with a mean above it.
Drains == {<<17>>, <<21, 17>>}

\* The sum of f[1], ..., f[n].
RECURSIVE SumTo(_, _)
SumTo(f, n) == IF n = 0 THEN 0 ELSE f[n] + SumTo(f, n - 1)

\* The sum of f over the actors 1..PROCESSES_COUNT.
SumOver(f, S) == SumTo(f, Cardinality(S))

RECURSIVE Pow(_, _)
Pow(b, e) == IF e = 0 THEN 1 ELSE b * Pow(b, e - 1)

SelectKind(s, k) == SelectSeq(s, LAMBDA e : e.kind = k)
SelectActor(s, a) == SelectSeq(s, LAMBDA e : e.actor = a)

\* ---------------------------------------------------------- queue entries
\* exp: an experience entry, identified by its actor and its index in that actor's stream.
ExpEntry(a, k) == [kind |-> "exp", actor |-> a, seq |-> k, reward |-> 0]
\* TotalReward(reward=np.mean(new_rewards))
TotalReward(a, k, r) == [kind |-> "reward", actor |-> a, seq |-> k, reward |-> r]
\* None, the end marker
EndEntry(a) == [kind |-> "end", actor |-> a, seq |-> 0, reward |-> 0]
\* The value of train_entry before the first get.
NoEntry == [kind |-> "none", actor |-> 0, seq |-> 0, reward |-> 0]

\* -------------------------------------------------------- the train_queue
\* train_queue = mp.Queue(maxsize=PROCESSES_COUNT).  Each putting process hands
\* its entries to the queue's pipe in its own put order, while the entries of
\* different processes reach the pipe in any order: train_queue[a] holds the
\* entries actor a has put and the learner has not yet got, oldest first.
QueueMaxSize == PROCESSES_COUNT

\* Entries put and not yet got, which the queue's semaphore bounds.
QueueSize == SumOver([a \in Actors |-> Len(train_queue[a])], Actors)

\* Mutant: the capacity test is off by one.
QueueFull_OffByOne == QueueSize > QueueMaxSize

\* Mutant: the queue counts as full one entry early.
QueueFull_Early == QueueSize >= QueueMaxSize - 1

QueueFull == QueueSize >= QueueMaxSize

\* train_queue.put(entry) by actor a: blocks while the queue is full.
QueuePut(a, entry) ==
    /\ ~QueueFull
    /\ train_queue' = [train_queue EXCEPT ![a] = Append(@, entry)]
    /\ pushed' = [pushed EXCEPT ![a] = Append(@, entry)]

\* Mutant: get returns the actor's newest entry while the oldest is dropped.
QueueFront_Newest(a) == train_queue[a][Len(train_queue[a])]

\* The entry train_queue.get() returns when it takes actor a's oldest entry.
QueueFront(a) == Head(train_queue[a])

\* ---------------------------------------------------------------- data_func
TotalExp == SumOver(n_exp, Actors)
TotalReports == SumOver([a \in Actors |-> Len(SelectKind(pushed[a], "reward"))], Actors) +
                Cardinality({a \in Actors : pc[a] = "put_reward"})

\* for exp in exp_source: the source yields the next entry; pop_total_rewards()
\* returns the episode totals completed since the last call (none, or some).
ActorIter(a) ==
    /\ pc[a] = "next"
    /\ TotalExp < MaxExp
    /\ n_exp' = [n_exp EXCEPT ![a] = @ + 1]
    /\ \/ /\ new_rewards' = [new_rewards EXCEPT ![a] = <<>>]
          /\ pc' = [pc EXCEPT ![a] = "put_exp"]
       \/ /\ TotalReports < MaxReports
          /\ \E l \in Drains : new_rewards' = [new_rewards EXCEPT ![a] = l]
          /\ pc' = [pc EXCEPT ![a] = "put_reward"]
    /\ UNCHANGED <<pushed, put_at, queueVars, learnerVars, unpackVars, updateVars>>

\* Mutant: the put of exp sits in an else branch, so an iteration with a report
\* pushes no Transition.
ActorPutReward_SkipsExp(a) ==
    /\ pc[a] = "put_reward"
    /\ QueuePut(a, TotalReward(a, n_exp[a], Mean(new_rewards[a])))
    /\ pc' = [pc EXCEPT ![a] = "next"]
    /\ UNCHANGED <<new_rewards, n_exp, put_at, learnerVars, unpackVars, updateVars>>

\* train_queue.put(TotalReward(reward=np.mean(new_rewards)))
ActorPutReward(a) ==
    /\ pc[a] = "put_reward"
    /\ QueuePut(a, TotalReward(a, n_exp[a], Mean(new_rewards[a])))
    /\ pc' = [pc EXCEPT ![a] = "put_exp"]
    /\ UNCHANGED <<new_rewards, n_exp, put_at, learnerVars, unpackVars, updateVars>>

\* train_queue.put(exp)
ActorPutExp(a) ==
    /\ pc[a] = "put_exp"
    /\ QueuePut(a, ExpEntry(a, n_exp[a]))
    /\ pc' = [pc EXCEPT ![a] = "next"]
    /\ UNCHANGED <<new_rewards, n_exp, put_at, learnerVars, unpackVars, updateVars>>

\* The for loop ends: exp_source is exhausted.
ActorExhaust(a) ==
    /\ pc[a] = "next"
    /\ pc' = [pc EXCEPT ![a] = "put_end"]
    /\ UNCHANGED <<new_rewards, n_exp, pushed, put_at, queueVars, learnerVars, unpackVars,
                   updateVars>>

\* Mutant: the end marker is put on the way out, as in a finally block.
ActorCrash_PutsEnd(a) ==
    /\ pc[a] = "next"
    /\ QueuePut(a, EndEntry(a))
    /\ pc' = [pc EXCEPT ![a] = "crashed"]
    /\ UNCHANGED <<new_rewards, n_exp, put_at, learnerVars, unpackVars, updateVars>>

\* for exp in exp_source: an environment step raises.  Nothing in data_func
\* catches the exception: the process ends there, without the put of line 47.
ActorCrash(a) ==
    /\ pc[a] = "next"
    /\ pc' = [pc EXCEPT ![a] = "crashed"]
    /\ UNCHANGED <<new_rewards, n_exp, pushed, put_at, queueVars, learnerVars, unpackVars,
                   updateVars>>

\* train_queue.put(None)
ActorPutEnd(a) ==
    /\ pc[a] = "put_end"
    /\ QueuePut(a, EndEntry(a))
    /\ pc' = [pc EXCEPT ![a] = "done"]
    /\ UNCHANGED <<new_rewards, n_exp, put_at, learnerVars, unpackVars, updateVars>>

\* ------------------------------------------------------------ RewardTracker
\* tracker.reward(reward, step_idx): the window after the report, and the stop signal.
TrackerWindow(w, r) ==
    LET all == Append(w, r)
    IN IF Len(all) > WindowSize THEN SubSeq(all, Len(all) - WindowSize + 1, Len(all)) ELSE all

TrackerStop(w) == SumSeq(w) >= STOP_REWARD * Len(w)

\* ------------------------------------------------------------- learner loop
\* Mutant: a sentinel is skipped with continue instead of break.
LearnerOnEnd_Continue ==
    /\ lpc' = "get"
    /\ UNCHANGED <<batch, step_idx, total_rewards, opt_steps, trained, last_emit, last_track>>

\* if train_entry is None: break
LearnerOnEnd ==
    /\ lpc' = "stopped"
    /\ UNCHANGED <<batch, step_idx, total_rewards, opt_steps, trained, last_emit, last_track>>

\* Mutant: the tracker's return value is ignored.
LearnerOnReward_IgnoresStop(entry) ==
    /\ total_rewards' = TrackerWindow(total_rewards, entry.reward)
    /\ last_emit' = step_idx
    /\ lpc' = "get"
    /\ UNCHANGED <<batch, step_idx, opt_steps, trained, last_track>>

\* if isinstance(train_entry, TotalReward): if tracker.reward(...): break; continue
LearnerOnReward(entry) ==
    /\ total_rewards' = TrackerWindow(total_rewards, entry.reward)
    /\ last_emit' = step_idx
    /\ lpc' = IF TrackerStop(total_rewards') THEN "stopped" ELSE "get"
    /\ UNCHANGED <<batch, step_idx, opt_steps, trained, last_track>>

\* Mutant: the batch counts as full one entry early.
BatchFull_Early(b) == ~(Len(b) < BATCH_SIZE - 1)

\* Mutant: the length test is <= instead of <.
BatchFull_OffByOne(b) == ~(Len(b) <= BATCH_SIZE)

\* if len(batch) < BATCH_SIZE: continue
BatchFull(b) == ~(Len(b) < BATCH_SIZE)

\* Mutant: step_idx is not incremented.
LearnerOnExp_NoCount(entry) ==
    /\ batch' = Append(batch, entry)
    /\ lpc' = IF BatchFull(batch') THEN "update" ELSE "get"
    /\ UNCHANGED <<step_idx, total_rewards, opt_steps, trained, last_emit, last_track>>

\* step_idx += 1; batch.append(train_entry); then the length test
LearnerOnExp(entry) ==
    /\ step_idx' = step_idx + 1
    /\ batch' = Append(batch, entry)
    /\ lpc' = IF BatchFull(batch') THEN "update" ELSE "get"
    /\ UNCHANGED <<total_rewards, opt_steps, trained, last_emit, last_track>>

\* Mutant: the loop goes on after a break.
LearnerAtGet_AfterBreak == lpc \in {"get", "stopped"}

\* while True: the loop runs until a break
LearnerAtGet == lpc = "get"

\* train_entry = train_queue.get(), which blocks while the queue is empty, and
\* the loop body up to the continue, the break or the full batch.
LearnerGet(a) ==
    /\ LearnerAtGet
    /\ train_queue[a] # <<>>
    /\ train_entry' = QueueFront(a)
    /\ train_queue' = [train_queue EXCEPT ![a] = Tail(@)]
    /\ popped' = [popped EXCEPT ![train_entry'.actor] = Append(@, train_entry')]
    /\ \/ train_entry'.kind = "end" /\ LearnerOnEnd
       \/ train_entry'.kind = "reward" /\ LearnerOnReward(train_entry')
       \/ train_entry'.kind = "exp" /\ LearnerOnExp(train_entry')
    /\ UNCHANGED <<actorVars, unpackVars, updateVars>>

\* Mutant: the batch is not cleared.
BatchAfterUpdate_NotCleared == batch

\* batch.clear()
BatchAfterUpdate == <<>>

\* Mutant: the metrics of an update are tagged with the number of updates.
LearnerUpdate_TracksUpdateCount ==
    /\ lpc = "update"
    /\ trained' = Append(trained, batch)
    /\ batch' = BatchAfterUpdate
    /\ opt_steps' = opt_steps + 1
    /\ last_emit' = opt_steps'
    /\ last_track' = opt_steps'
    /\ lpc' = "get"
    /\ UNCHANGED <<train_entry, step_idx, total_rewards, popped, queueVars, actorVars, unpackVars,
                   updateVars>>

\* unpack_batch(batch, net); batch.clear(); the losses and gradients;
\* optimizer.step(); the tb_tracker.track calls
LearnerUpdate ==
    /\ lpc = "update"
    /\ trained' = Append(trained, batch)
    /\ batch' = BatchAfterUpdate
    /\ opt_steps' = opt_steps + 1
    /\ last_emit' = step_idx
    /\ last_track' = step_idx
    /\ lpc' = "get"
    /\ UNCHANGED <<train_entry, step_idx, total_rewards, popped, queueVars, actorVars, unpackVars,
                   updateVars>>

\* -------------------------------------------------------------- unpack_batch
\* Rewards and values are exact rationals: a number x is stored as the integer
\* x * 2 * GAMMA_DEN^REWARD_STEPS, so that rewards and values in halves and the
\* product with GAMMA ** REWARD_STEPS are all integers.
None == "none"
UStates == {"X", "Y"}
\* exp.reward, in halves: -1.0, 0.5, 1.0
URewards == {-2, 1, 2}
\* outputs of the value head, in halves: -1.0, 2.0
UValues == {-2, 4}
\* exp.action, an index into the policy head's outputs
UActions == {0, 1}
\* What is drawn for one entry of the batch; exp.state is the entry's own observation.
Experience == [action : UActions, reward : URewards, last_state : UStates \cup {None}]
\* The observation entry i of a batch starts from: one per entry.
Observation(i) == <<"obs", i>>
\* A batch of ptan ExperienceFirstLast entries (state, action, reward, last_state).
MakeBatch(f) ==
    [i \in 1..Len(f) |-> [state |-> Observation(i), action |-> f[i].action,
                          reward |-> f[i].reward, last_state |-> f[i].last_state]]

\* a number given in halves, as stored
Stored(halves) == halves * Pow(GAMMA_DEN, REWARD_STEPS)
\* GAMMA ** REWARD_STEPS * v, for a value v given in halves, as stored
Discounted(halves) == Pow(GAMMA_NUM, REWARD_STEPS) * halves

\* Mutant: the position among the non-terminal entries is recorded instead of idx.
NotDoneAppend_Position(lst, idx) == Append(lst, Len(lst))

\* not_done_idx.append(idx)
NotDoneAppend(lst, idx) == Append(lst, idx)

\* for idx, exp in enumerate(batch): one iteration
UnpackLoop ==
    /\ u_pc = "loop"
    /\ u_idx < Len(u_batch)
    /\ LET exp == u_batch[u_idx + 1]
       IN /\ states' = Append(states, exp.state)
          /\ actions' = Append(actions, exp.action)
          /\ rewards' = Append(rewards, exp.reward)
          /\ IF exp.last_state # None
             THEN /\ not_done_idx' = NotDoneAppend(not_done_idx, u_idx)
                  /\ last_states' = Append(last_states, exp.last_state)
             ELSE UNCHANGED <<not_done_idx, last_states>>
    /\ u_idx' = u_idx + 1
    /\ UNCHANGED <<u_pc, u_batch, u_net, rewards_np>>
    /\ UNCHANGED <<actorVars, queueVars, learnerVars, updateVars>>

\* rewards_np = np.array(rewards, dtype=np.float32), once the loop is over
UnpackArray ==
    /\ u_pc = "loop"
    /\ u_idx = Len(u_batch)
    /\ rewards_np' = [i \in 1..Len(rewards) |-> Stored(rewards[i])]
    /\ u_pc' = "bootstrap"
    /\ UNCHANGED <<u_batch, u_net, u_idx, states, actions, rewards, not_done_idx, last_states>>
    /\ UNCHANGED <<actorVars, queueVars, learnerVars, updateVars>>

\* net(last_states_v)[1], then .data.cpu().numpy()[:, 0]: one value per row of the input
NetValues(net, inputs) == [j \in 1..Len(inputs) |-> net[inputs[j]]]

\* arr[idx] += GAMMA ** REWARD_STEPS * vals, idx a list of distinct 0-based positions
IndexAdd(arr, idx, vals) ==
    [i \in 1..Len(arr) |->
        IF \E j \in 1..Len(idx) : idx[j] = i - 1
        THEN arr[i] + Discounted(vals[CHOOSE j \in 1..Len(idx) : idx[j] = i - 1])
        ELSE arr[i]]

\* if not_done_idx: ...; rewards_np[not_done_idx] += GAMMA ** REWARD_STEPS * last_vals_np
UnpackBootstrap ==
    /\ u_pc = "bootstrap"
    /\ rewards_np' = IF not_done_idx # <<>>
                     THEN IndexAdd(rewards_np, not_done_idx, NetValues(u_net, last_states))
                     ELSE rewards_np
    /\ u_pc' = "done"
    /\ UNCHANGED <<u_batch, u_net, u_idx, states, actions, rewards, not_done_idx, last_states>>
    /\ UNCHANGED <<actorVars, queueVars, learnerVars, updateVars>>

\* ---------------------------------------------------------- the update step
\* The update of one full batch, from optimizer.zero_grad() to the tracked
\* metrics.  The network is opaque: net_out holds what net(states_v) yields for
\* each row.  Tensors keep their shapes: a vector is a sequence, a matrix a
\* sequence of rows.  Numbers are exact integers; whether the float32 losses are
\* finite is an input (net_out.finite).
\* returns of the rows, in whole units
URefs == {-1, 2}
\* outputs of the value head on the rows, in whole units
UVals == {0, 1}
\* rows of log_softmax(logits_v), one entry per action; actions are 0-based
ULogProbRows == {<<-1, -2>>, <<-3, -1>>}

\* p.grad of the parameters: which loss terms it holds and how often each.
\* No gradient yet: p.grad is None.
NoGrad == [set |-> FALSE, policy |-> 0, entropy |-> 0, value |-> 0,
           clipped |-> FALSE, finite |-> TRUE]
\* The gradient an earlier update has left in p.grad.
LeftGrad == [set |-> TRUE, policy |-> 1, entropy |-> 1, value |-> 1,
             clipped |-> TRUE, finite |-> TRUE]

\* Mutant: the gradients are not zeroed.
ZeroGrad_Skipped(g) == g

\* optimizer.zero_grad(): zeroes every p.grad that is not None
ZeroGrad(g) ==
    IF g.set
    THEN [g EXCEPT !.policy = 0, !.entropy = 0, !.value = 0, !.clipped = FALSE, !.finite = TRUE]
    ELSE g

\* loss.backward(): adds the loss term's gradient to p.grad
Backward(g, term, finite) ==
    [g EXCEPT !.set = TRUE, ![term] = @ + 1, !.finite = @ /\ finite]

\* nn_utils.clip_grad_norm(net.parameters(), CLIP_GRAD)
ClipGradNorm(g) == [g EXCEPT !.clipped = TRUE]

\* The value head yields one column: the value output has shape (rows, 1), as
\* the [:, 0] of unpack_batch shows.
\* vals_ref_v - value_v.detach(), of shapes (n,) and (m, 1): broadcasting aligns
\* the trailing dimensions, so the result has shape (m, n) with entry [i][j]
\* = x[j] - y[i][0].
SubBroadcast(x, y) == [i \in 1..Len(y) |-> [j \in 1..Len(x) |-> x[j] - y[i][1]]]

\* log_prob_v[range(BATCH_SIZE), actions_t]: for row i the entry in column actions_t[i]
SelectActions(lp, acts) == [i \in 1..Len(acts) |-> lp[i][acts[i] + 1]]

\* m * w, of shapes (m, n) and (n,): entry [i][j] = m[i][j] * w[j]
MulBroadcast(m, w) == [i \in 1..Len(m) |-> [j \in 1..Len(w) |-> m[i][j] * w[j]]]

\* The sum of all entries of a matrix, and their number.
MatrixSum(m) == SumSeq([i \in 1..Len(m) |-> SumSeq(m[i])])
MatrixCount(m) == SumSeq([i \in 1..Len(m) |-> Len(m[i])])

\* optimizer.zero_grad()
UpdZeroGrad ==
    /\ upc = "zero_grad"
    /\ grad' = ZeroGrad(grad)
    /\ upc' = "forward"
    /\ UNCHANGED <<actions_t, vals_ref_v, net_out, log_prob_v, value_v, adv_v,
                   log_prob_actions_v, loss_policy_v, grads, applied>>
    /\ UNCHANGED <<actorVars, queueVars, learnerVars, unpackVars>>

\* logits_v, value_v = net(states_v); log_prob_v = F.log_softmax(logits_v)
UpdForward ==
    /\ upc = "forward"
    /\ value_v' = net_out.value
    /\ log_prob_v' = net_out.log_prob
    /\ upc' = "losses"
    /\ UNCHANGED <<actions_t, vals_ref_v, net_out, adv_v, log_prob_actions_v,
                   loss_policy_v, grad, grads, applied>>
    /\ UNCHANGED <<actorVars, queueVars, learnerVars, unpackVars>>

\* adv_v, log_prob_actions_v and loss_policy_v = -log_prob_actions_v.mean();
\* loss_value_v and entropy_loss_v are computed here too
UpdLosses ==
    /\ upc = "losses"
    /\ adv_v' = SubBroadcast(vals_ref_v, value_v)
    /\ log_prob_actions_v' = MulBroadcast(adv_v', SelectActions(log_prob_v, actions_t))
    /\ loss_policy_v' = [num |-> 0 - MatrixSum(log_prob_actions_v'),
                         den |-> MatrixCount(log_prob_actions_v')]
    /\ upc' = "backward_policy"
    /\ UNCHANGED <<actions_t, vals_ref_v, net_out, log_prob_v, value_v, grad, grads, applied>>
    /\ UNCHANGED <<actorVars, queueVars, learnerVars, unpackVars>>

\* loss_policy_v.backward(retain_graph=True)
UpdBackwardPolicy ==
    /\ upc = "backward_policy"
    /\ grad' = Backward(grad, "policy", net_out.finite)
    /\ upc' = "snapshot"
    /\ UNCHANGED <<actions_t, vals_ref_v, net_out, log_prob_v, value_v, adv_v,
                   log_prob_actions_v, loss_policy_v, grads, applied>>
    /\ UNCHANGED <<actorVars, queueVars, learnerVars, unpackVars>>

\* grads = np.concatenate([p.grad.data.cpu().numpy().flatten() ...]): a copy
UpdSnapshot ==
    /\ upc = "snapshot"
    /\ grads' = grad
    /\ upc' = "backward_rest"
    /\ UNCHANGED <<actions_t, vals_ref_v, net_out, log_prob_v, value_v, adv_v,
                   log_prob_actions_v, loss_policy_v, grad, applied>>
    /\ UNCHANGED <<actorVars, queueVars, learnerVars, unpackVars>>

\* loss_v = entropy_loss_v + loss_value_v; loss_v.backward()
UpdBackwardRest ==
    /\ upc = "backward_rest"
    /\ grad' = Backward(Backward(grad, "entropy", net_out.finite), "value", net_out.finite)
    /\ upc' = "clip"
    /\ UNCHANGED <<actions_t, vals_ref_v, net_out, log_prob_v, value_v, adv_v,
                   log_prob_actions_v, loss_policy_v, grads, applied>>
    /\ UNCHANGED <<actorVars, queueVars, learnerVars, unpackVars>>

\* nn_utils.clip_grad_norm(net.parameters(), CLIP_GRAD)
UpdClip ==
    /\ upc = "clip"
    /\ grad' = ClipGradNorm(grad)
    /\ upc' = "step"
    /\ UNCHANGED <<actions_t, vals_ref_v, net_out, log_prob_v, value_v, adv_v,
                   log_prob_actions_v, loss_policy_v, grads, applied>>
    /\ UNCHANGED <<actorVars, queueVars, learnerVars, unpackVars>>

\* optimizer.step(): there is no test of the losses before it
UpdStep ==
    /\ upc = "step"
    /\ applied' = Append(applied, grad)
    /\ opt_steps' = opt_steps + 1
    /\ upc' = "track"
    /\ UNCHANGED <<actions_t, vals_ref_v, net_out, log_prob_v, value_v, adv_v,
                   log_prob_actions_v, loss_policy_v, grad, grads>>
    /\ UNCHANGED <<lpc, train_entry, batch, step_idx, total_rewards, popped, trained,
                   last_emit, last_track>>
    /\ UNCHANGED <<actorVars, queueVars, unpackVars>>

\* loss_v += loss_policy_v and the tb_tracker.track(..., step_idx) calls; the loop goes on
UpdTrack ==
    /\ upc = "track"
    /\ last_emit' = step_idx
    /\ last_track' = step_idx
    /\ upc' = "done"
    /\ UNCHANGED <<actions_t, vals_ref_v, net_out, log_prob_v, value_v, adv_v,
                   log_prob_actions_v, loss_policy_v, grad, grads, applied>>
    /\ UNCHANGED <<lpc, train_entry, batch, step_idx, total_rewards, opt_steps, popped, trained>>
    /\ UNCHANGED <<actorVars, queueVars, unpackVars>>

\* ---------------------------------------------------------- specification
UnpackIdle ==
    /\ u_pc = "idle" /\ u_batch = <<>> /\ u_net = <<>> /\ u_idx = 0
    /\ states = <<>> /\ actions = <<>> /\ rewards = <<>>
    /\ not_done_idx = <<>> /\ last_states = <<>> /\ rewards_np = <<>>

UpdateIdle ==
    /\ upc = "idle" /\ actions_t = <<>> /\ vals_ref_v = <<>>
    /\ net_out = [log_prob |-> <<>>, value |-> <<>>, finite |-> TRUE]
    /\ log_prob_v = <<>> /\ value_v = <<>> /\ adv_v = <<>> /\ log_prob_actions_v = <<>>
    /\ loss_policy_v = [num |-> 0, den |-> 1]
    /\ grad = NoGrad /\ grads = NoGrad /\ applied = <<>>

Init ==
    /\ pc = [a \in Actors |-> "next"]
    /\ new_rewards = [a \in Actors |-> <<>>]
    /\ n_exp = [a \in Actors |-> 0]
    /\ pushed = [a \in Actors |-> <<>>]
    /\ put_at = [a \in Actors |-> <<>>]
    /\ train_queue = [a \in Actors |-> <<>>]
    /\ lpc = "get"
    /\ train_entry = NoEntry
    /\ batch = <<>>
    /\ step_idx = 0
    /\ total_rewards = <<>>
    /\ opt_steps = 0
    /\ popped = [a \in Actors |-> <<>>]
    /\ trained = <<>>
    /\ last_emit = 0
    /\ last_track = 0
    /\ UnpackIdle
    /\ UpdateIdle

ActorNext(a) ==
    \/ ActorIter(a)
    \/ ActorPutReward(a)
    \/ ActorPutExp(a)
    \/ ActorExhaust(a)
    \/ ActorPutEnd(a)
    \/ ActorCrash(a)

LearnerNext == (\E a \in Actors : LearnerGet(a)) \/ LearnerUpdate

Next ==
    \/ \E a \in Actors : ActorNext(a)
    \/ LearnerNext

Spec == Init /\ [][Next]_vars

\* The same program under fair scheduling: the learner process and every actor
\* process keep running whenever they have a step to take.  The run starts when
\* every actor but the first two has crashed before its first put.
LiveInit ==
    /\ pc = [a \in Actors |-> IF a <= 2 THEN "next" ELSE "crashed"]
    /\ new_rewards = [a \in Actors |-> <<>>]
    /\ n_exp = [a \in Actors |-> 0]
    /\ pushed = [a \in Actors |-> <<>>]
    /\ put_at = [a \in Actors |-> <<>>]
    /\ train_queue = [a \in Actors |-> <<>>]
    /\ lpc = "get"
    /\ train_entry = NoEntry
    /\ batch = <<>>
    /\ step_idx = 0
    /\ total_rewards = <<>>
    /\ opt_steps = 0
    /\ popped = [a \in Actors |-> <<>>]
    /\ trained = <<>>
    /\ last_emit = 0
    /\ last_track = 0
    /\ UnpackIdle
    /\ UpdateIdle

LiveSpec ==
    /\ LiveInit /\ [][Next]_vars
    /\ WF_vars(LearnerNext)
    /\ \A a \in Actors : WF_vars(ActorNext(a))

\* unpack_batch alone, on every batch of at most MaxBatchLen entries and every value head.
UnpackInit ==
    /\ pc = [a \in Actors |-> "next"]
    /\ new_rewards = [a \in Actors |-> <<>>]
    /\ n_exp = [a \in Actors |-> 0]
    /\ pushed = [a \in Actors |-> <<>>]
    /\ put_at = [a \in Actors |-> <<>>]
    /\ train_queue = [a \in Actors |-> <<>>]
    /\ lpc = "update"
    /\ train_entry = NoEntry
    /\ batch = <<>>
    /\ step_idx = 0
    /\ total_rewards = <<>>
    /\ opt_steps = 0
    /\ popped = [a \in Actors |-> <<>>]
    /\ trained = <<>>
    /\ last_emit = 0
    /\ last_track = 0
    /\ u_pc = "loop"
    /\ u_batch \in {MakeBatch(f) : f \in UNION {[1..n -> Experience] : n \in 0..MaxBatchLen}}
    /\ u_net \in [UStates -> UValues]
    /\ u_idx = 0
    /\ states = <<>>
    /\ actions = <<>>
    /\ rewards = <<>>
    /\ not_done_idx = <<>>
    /\ last_states = <<>>
    /\ rewards_np = <<>>
    /\ UpdateIdle

UnpackNext ==
    \/ UnpackLoop
    \/ UnpackArray
    \/ UnpackBootstrap

UnpackSpec == UnpackInit /\ [][UnpackNext]_vars

\* The update alone, right after unpack_batch and batch.clear(), on every full
\* batch of rows, with and without a gradient left by an earlier update.
UpdateInit ==
    /\ pc = [a \in Actors |-> "next"]
    /\ new_rewards = [a \in Actors |-> <<>>]
    /\ n_exp = [a \in Actors |-> 0]
    /\ pushed = [a \in Actors |-> <<>>]
    /\ put_at = [a \in Actors |-> <<>>]
    /\ train_queue = [a \in Actors |-> <<>>]
    /\ lpc = "update"
    /\ train_entry = NoEntry
    /\ batch = <<>>
    /\ step_idx = 0
    /\ total_rewards = <<>>
    /\ opt_steps = 0
    /\ popped = [a \in Actors |-> <<>>]
    /\ trained = <<>>
    /\ last_emit = 0
    /\ last_track = 0
    /\ UnpackIdle
    /\ upc = "zero_grad"
    /\ actions_t \in [1..BATCH_SIZE -> UActions]
    /\ vals_ref_v \in [1..BATCH_SIZE -> URefs]
    /\ net_out \in [log_prob : [1..BATCH_SIZE -> ULogProbRows],
                    value : [1..BATCH_SIZE -> {<<v>> : v \in UVals}],
                    finite : BOOLEAN]
    /\ log_prob_v = <<>> /\ value_v = <<>> /\ adv_v = <<>> /\ log_prob_actions_v = <<>>
    /\ loss_policy_v = [num |-> 0, den |-> 1]
    /\ grad \in {NoGrad, LeftGrad}
    /\ grads = NoGrad
    /\ applied = <<>>

\* The learner's loop against producers that put at any time the queue has
\* room, in place of data_func and its experience source.
FeedInit == Init

\* Actor a puts an experience entry.
FeedExp(a) ==
    /\ pc[a] = "next"
    /\ TotalExp < MaxFeed
    /\ n_exp' = [n_exp EXCEPT ![a] = @ + 1]
    /\ QueuePut(a, ExpEntry(a, n_exp'[a]))
    /\ put_at' = [put_at EXCEPT ![a] = Append(@, [steps |-> opt_steps, idx |-> step_idx])]
    /\ UNCHANGED <<pc, new_rewards, learnerVars, unpackVars, updateVars>>

\* Actor a puts a TotalReward.
FeedReward(a) ==
    /\ pc[a] = "next"
    /\ TotalReports < MaxReports
    /\ \E r \in RewardMeans : QueuePut(a, TotalReward(a, n_exp[a] + 1, r))
    /\ put_at' = [put_at EXCEPT ![a] = Append(@, [steps |-> opt_steps, idx |-> step_idx])]
    /\ UNCHANGED <<pc, new_rewards, n_exp, learnerVars, unpackVars, updateVars>>

\* Actor a puts None and is done.
FeedEnd(a) ==
    /\ pc[a] = "next"
    /\ QueuePut(a, EndEntry(a))
    /\ put_at' = [put_at EXCEPT ![a] = Append(@, [steps |-> opt_steps, idx |-> step_idx])]
    /\ pc' = [pc EXCEPT ![a] = "done"]
    /\ UNCHANGED <<new_rewards, n_exp, learnerVars, unpackVars, updateVars>>

\* Every actor puts experience entries, up to MaxFeed in all.
FeedNext ==
    \/ \E a \in Actors : FeedExp(a)
    \/ LearnerNext

FeedSpec == FeedInit /\ [][FeedNext]_vars

\* One actor puts entries of every kind in any order: every stream of entries
\* the queue can hand to the learner, up to MaxFeed experience entries and
\* MaxReports reports.
StreamNext ==
    \/ FeedExp(1)
    \/ FeedReward(1)
    \/ FeedEnd(1)
    \/ LearnerNext

StreamSpec == FeedInit /\ [][StreamNext]_vars

UpdateNext ==
    \/ UpdZeroGrad
    \/ UpdForward
    \/ UpdLosses
    \/ UpdBackwardPolicy
    \/ UpdSnapshot
    \/ UpdBackwardRest
    \/ UpdClip
    \/ UpdStep
    \/ UpdTrack

UpdateSpec == UpdateInit /\ [][UpdateNext]_vars

\* ================================================================== claims
TotalPushed == SumOver([a \in Actors |-> Len(pushed[a])], Actors)
TotalPopped == SumOver([a \in Actors |-> Len(popped[a])], Actors)
EndsPopped == SumOver([a \in Actors |-> Len(SelectKind(popped[a], "end"))], Actors)
AtPut(a) == pc[a] \in {"put_reward", "put_exp", "put_end"}
Blocked(a) == AtPut(a) /\ QueueFull
StoppedByTracker == lpc = "stopped" /\ train_entry.kind = "reward"
StoppedByEnd == lpc = "stopped" /\ train_entry.kind = "end"

RECURSIVE Flatten(_)
Flatten(ss) == IF ss = <<>> THEN <<>> ELSE Head(ss) \o Flatten(Tail(ss))

\* How often entry e occurs in sequence s.
Count(s, e) == Cardinality({i \in 1..Len(s) : s[i] = e})

\* Every experience entry handed to unpack_batch so far, in order.
Consumed == Flatten(trained)

\* C1: the queue never holds more than PROCESSES_COUNT entries: the puts that
\* have completed exceed the gets by at most PROCESSES_COUNT, so a put on a
\* queue holding PROCESSES_COUNT entries completes only after a get; with no
\* get at all, at most PROCESSES_COUNT puts complete.
C1_QueueBounded ==
    /\ QueueSize <= PROCESSES_COUNT
    /\ TotalPushed - TotalPopped <= PROCESSES_COUNT
    /\ TotalPopped = 0 => TotalPushed <= PROCESSES_COUNT

\* PROCESSES_COUNT puts have completed, nothing has been popped, and a further
\* put is being attempted: it is blocked.
C1_Witness ==
    /\ TotalPopped = 0
    /\ TotalPushed = PROCESSES_COUNT
    /\ \E a \in Actors : Blocked(a) /\ Len(pushed[a]) >= 1

\* C2 as stated: the learner terminates on sentinels only after it has popped
\* as many sentinels as there are actors.
C2_StopsAfterAllSentinels == StoppedByEnd => EndsPopped = PROCESSES_COUNT

\* C2 as amended: the learner keeps no count of live actors; it terminates on
\* the first sentinel it pops, so at most one sentinel is ever popped and the
\* learner has stopped exactly when one was.
C2_StopsAtFirstSentinel ==
    /\ EndsPopped <= 1
    /\ EndsPopped = 1 <=> StoppedByEnd
    /\ EndsPopped = 1 => lpc = "stopped"

\* The learner has stopped on one actor's sentinel while another actor is still
\* in its loop and has pushed no sentinel.
C2_Witness ==
    /\ StoppedByEnd
    /\ EndsPopped = 1
    /\ \E a \in Actors : pc[a] \in {"next", "put_reward", "put_exp"}

\* C3 as stated: after the learner has stopped on the tracker's signal, every
\* actor gets to push the end sentinel, as the last entry it pushes; so once
\* nothing can move any more, every actor's last pushed entry is the sentinel.
C3_EveryActorPushesEnd ==
    (StoppedByTracker /\ ~ENABLED Next) =>
        \A a \in Actors : pushed[a] # <<>> /\ pushed[a][Len(pushed[a])].kind = "end"

\* C4 as stated: once the run is over, every Transition an actor produced and
\* pushed is in exactly one batch handed to unpack_batch.
C4_ConsumedExactlyOnce ==
    lpc = "stopped" =>
        \A a \in Actors : \A i \in 1..Len(pushed[a]) :
            pushed[a][i].kind = "exp" => Count(Consumed, pushed[a][i]) = 1

\* C4 as amended: no Transition is handed to unpack_batch twice; a Transition
\* that was popped is exactly once in the handed batches or the current batch,
\* a Transition that was not popped is in neither.
C4_ConsumedAtMostOnce ==
    \A a \in Actors : \A k \in 1..n_exp[a] :
        LET e == ExpEntry(a, k)
        IN /\ Count(Consumed, e) <= 1
           /\ Count(Consumed \o batch, e) = Count(popped[a], e)
           /\ Count(popped[a], e) <= 1

\* The learner has stopped after an update, leaving a Transition in a partial
\* batch: it was pushed and popped and is never handed to unpack_batch.
C4_Witness ==
    /\ lpc = "stopped"
    /\ Len(trained) >= 1
    /\ batch # <<>>
    /\ \E a \in Actors : \E i \in 1..Len(pushed[a]) :
            pushed[a][i].kind = "exp" /\ Count(Consumed, pushed[a][i]) = 0

\* Actor a has left its loop because its own experience source ended.
SourceEnded(a) == pc[a] \in {"put_end", "done"}
\* Actor a's process has died of an exception.
Crashed(a) == pc[a] = "crashed"

\* C5: once the learner has stopped on the tracker's signal it never gets
\* again, so the queue never shrinks and an actor blocked in a put stays
\* blocked for ever; the stop moves no actor out of its loop; and when nothing
\* can move any more, every actor whose experience source has not ended and
\* whose process has not died is blocked in a put on the full queue.
C5_ActorsStayBlocked ==
    /\ [][StoppedByTracker =>
            /\ UNCHANGED learnerVars
            /\ \A a \in Actors :
                /\ Len(train_queue'[a]) >= Len(train_queue[a])
                /\ Blocked(a) => (Blocked(a))' /\ pc'[a] = pc[a]
          ]_vars
    /\ [][\A a \in Actors : (lpc' = "stopped" /\ lpc # "stopped") => pc'[a] = pc[a]]_vars
    /\ []((StoppedByTracker /\ ~ENABLED Next) =>
            \A a \in Actors : \/ SourceEnded(a)
                              \/ Crashed(a)
                              \/ Blocked(a) /\ pc[a] \in {"put_reward", "put_exp"})

\* The learner has stopped on the tracker's signal and every actor is blocked
\* in a put of a report or an experience entry on the full queue.
C5_Witness ==
    /\ StoppedByTracker
    /\ \A a \in Actors : Blocked(a) /\ pc[a] # "put_end"

\* C6: an update runs on a batch of exactly BATCH_SIZE entries; the batch only
\* grows by appending popped Transitions, in pop order, and is emptied by the
\* update: at every get it holds fewer than BATCH_SIZE entries, and the batches
\* handed to unpack_batch followed by the current batch are the Transitions
\* popped so far.
C6_BatchDiscipline ==
    /\ Len(batch) <= BATCH_SIZE
    /\ lpc = "get" => Len(batch) < BATCH_SIZE
    /\ lpc = "update" <=> Len(batch) = BATCH_SIZE
    /\ \A i \in 1..Len(trained) : Len(trained[i]) = BATCH_SIZE
    /\ opt_steps = Len(trained)
    /\ Len(Consumed \o batch) = step_idx
    /\ \A a \in Actors : SelectActor(Consumed \o batch, a) = SelectKind(popped[a], "exp")

\* An update has run and the learner is back at the get with a batch one short
\* of full.
C6_Witness ==
    /\ lpc = "get"
    /\ Len(trained) >= 1
    /\ Len(batch) = BATCH_SIZE - 1

\* Whether this step pops a TotalReward.
PopsReport == train_entry'.kind = "reward" /\ popped' # popped

\* C7: when the tracker returns true for a popped report the learner stops at
\* once, leaving the batch as it is, and when it returns false the learner is
\* back at the get; once stopped, the learner never gets, appends, unpacks or
\* steps the optimizer again.
C7_StopIsTerminal ==
    [][/\ lpc = "stopped" =>
            /\ UNCHANGED learnerVars
            /\ \A a \in Actors : Len(train_queue'[a]) >= Len(train_queue[a])
       /\ PopsReport =>
            /\ total_rewards' = TrackerWindow(total_rewards, train_entry'.reward)
            /\ UNCHANGED <<batch, step_idx, opt_steps, trained>>
            /\ TrackerStop(total_rewards') => lpc' = "stopped"
            /\ ~TrackerStop(total_rewards') => lpc' = "get"
      ]_vars

\* The learner has stopped on the tracker's signal with a partially filled
\* batch and entries still queued.
C7_Witness ==
    /\ StoppedByTracker
    /\ batch # <<>>
    /\ QueueSize > 0
    /\ Len(total_rewards) = 2

\* C8: for each actor, the entries the learner has popped followed by the
\* entries still queued are exactly the entries the actor has pushed, in push
\* order: none lost, none duplicated, none overtaken by a later one.
C8_PerActorFifo ==
    \A a \in Actors :
        /\ pushed[a] = popped[a] \o train_queue[a]
        /\ \A i \in 1..Len(popped[a]) : popped[a][i] = pushed[a][i]

\* The learner has popped two entries of actor 1 and one of another actor,
\* which has a further entry waiting in the queue.
C8_Witness ==
    /\ Len(popped[1]) >= 2
    /\ \E a \in Actors \ {1} : Len(popped[a]) >= 1 /\ train_queue[a] # <<>>

\* In sequence s of one actor's entries, every report is directly followed by
\* the experience entry of the same iteration, unless it is the last entry.
ReportThenExp(s) ==
    \A i \in 1..Len(s) :
        s[i].kind = "reward" =>
            i = Len(s) \/ s[i + 1] = ExpEntry(s[i].actor, s[i].seq)

\* C9: an actor pushes the report of an iteration directly before that
\* iteration's Transition, the learner pops them in that order, and no two
\* reports of an actor are adjacent in its pushes or in its pops.
C9_ReportBeforeTransition ==
    \A a \in Actors :
        /\ ReportThenExp(pushed[a])
        /\ ReportThenExp(popped[a])
        /\ \A i \in 1..Len(pushed[a]) :
              (pushed[a][i].kind = "reward" /\ i = Len(pushed[a])) => pc[a] = "put_exp"
        /\ \A i \in 1..(Len(popped[a]) - 1) :
              ~(popped[a][i].kind = "reward" /\ popped[a][i + 1].kind = "reward")

\* The learner has popped two reports of one actor, each followed by its Transition.
C9_Witness ==
    \E a \in Actors :
        /\ Len(SelectKind(popped[a], "reward")) >= 2
        /\ popped[a][Len(popped[a])].kind = "exp"

\* The spec's worked example: rewards 1.0, -1.0, 0.5, only the third with a last state.
ExampleBatch ==
    MakeBatch(<< [action |-> 0, reward |-> 2, last_state |-> None],
                 [action |-> 0, reward |-> -2, last_state |-> None],
                 [action |-> 0, reward |-> 1, last_state |-> "X"] >>)

\* C10: unpack_batch returns, at every position i, the reward of batch[i] when
\* its last_state is None and that reward plus GAMMA ** REWARD_STEPS times the
\* value head's output on batch[i].last_state otherwise; on the worked example
\* with value 2.0 the result is 1.0, -1.0, 0.5 + 0.99^4 * 2.0.
C10_BootstrappedReturns ==
    u_pc = "done" =>
        /\ Len(rewards_np) = Len(u_batch)
        /\ \A i \in 1..Len(u_batch) :
              rewards_np[i] =
                  IF u_batch[i].last_state = None
                  THEN Stored(u_batch[i].reward)
                  ELSE Stored(u_batch[i].reward) + Discounted(u_net[u_batch[i].last_state])
        /\ (u_batch = ExampleBatch /\ u_net["X"] = 4) =>
              rewards_np = <<200000000, -200000000, 484238404>>

\* unpack_batch has returned on a batch whose first and third entries have
\* different last states with different values and whose second is terminal.
C10_Witness ==
    /\ u_pc = "done"
    /\ Len(u_batch) = 3
    /\ u_batch[1].last_state = "Y" /\ u_batch[2].last_state = None /\ u_batch[3].last_state = "X"
    /\ u_net["X"] = 4 /\ u_net["Y"] = -2
    /\ rewards_np[3] = Stored(u_batch[3].reward) + 384238404

\* The lists unpack_batch has built hold, at every position, the state, the
\* action and the reward of the batch entry at that position.
UnpackRowsAligned ==
    /\ Len(states) = u_idx /\ Len(actions) = u_idx /\ Len(rewards) = u_idx
    /\ \A i \in 1..u_idx :
          /\ states[i] = u_batch[i].state
          /\ actions[i] = u_batch[i].action
          /\ rewards[i] = u_batch[i].reward
    /\ u_pc = "done" => Len(rewards_np) = Len(u_batch)

\* The losses of the update under way have been computed.
LossesComputed ==
    upc \in {"backward_policy", "snapshot", "backward_rest", "clip", "step", "track", "done"}

\* The advantage of row i times the log-probability of row i's action.
RowTerm(i) == (vals_ref_v[i] - net_out.value[i][1]) * net_out.log_prob[i][actions_t[i] + 1]

\* C11 as stated: states[i], actions[i] and returns[i] of unpack_batch come
\* from the i-th entry of the batch, and the policy loss is minus the mean over
\* the rows i of the advantage of row i times the log-probability of
\* actions[i] in row i.
C11_RowAlignedPolicyLoss ==
    /\ UnpackRowsAligned
    /\ (LossesComputed /\ net_out.finite) =>
          loss_policy_v.num * BATCH_SIZE =
              (0 - SumSeq([i \in 1..BATCH_SIZE |-> RowTerm(i)])) * loss_policy_v.den

\* The policy loss has been computed from finite outputs on rows with different values.
C11_Witness ==
    /\ upc = "backward_policy"
    /\ net_out.finite
    /\ \E i, j \in 1..BATCH_SIZE : net_out.value[i] # net_out.value[j]

\* p.grad holds the loss terms' gradients p, e and v times.
Holds(g, p, e, v) == g.set /\ g.policy = p /\ g.entropy = e /\ g.value = v

\* C12: within one update the gradients are zeroed first, then the policy loss
\* alone is backpropagated, then the snapshot is taken and holds the policy
\* gradient only, then entropy and value loss are backpropagated onto it, so
\* that the gradient holds each of the three terms once, then it is clipped,
\* then one optimizer step applies it: each exactly once, whatever an earlier
\* update has left in the gradient buffers.
C12_UpdateOrder ==
    /\ upc \in {"forward", "losses", "backward_policy"} =>
          grad.policy = 0 /\ grad.entropy = 0 /\ grad.value = 0 /\ ~grad.clipped
    /\ upc = "snapshot" => Holds(grad, 1, 0, 0) /\ ~grad.clipped
    /\ upc \in {"backward_rest", "clip", "step", "track", "done"} =>
          Holds(grads, 1, 0, 0) /\ ~grads.clipped
    /\ upc = "backward_rest" => grad = grads
    /\ upc = "clip" => Holds(grad, 1, 1, 1) /\ ~grad.clipped
    /\ upc = "step" => Holds(grad, 1, 1, 1) /\ grad.clipped
    /\ upc \in {"zero_grad", "forward", "losses", "backward_policy", "snapshot",
                 "backward_rest", "clip", "step"} => applied = <<>> /\ opt_steps = 0
    /\ upc \in {"track", "done"} =>
          /\ opt_steps = 1
          /\ Len(applied) = 1 /\ applied[1] = grad
          /\ Holds(grad, 1, 1, 1) /\ grad.clipped

\* An update is over: its one optimizer step has applied the clipped sum of
\* the three gradients and the snapshot holds the policy gradient alone.
C12_Witness ==
    /\ upc = "done"
    /\ Len(applied) = 1
    /\ Holds(applied[1], 1, 1, 1) /\ applied[1].clipped
    /\ Holds(grads, 1, 0, 0)

\* C13 as stated: when the losses of an update are not finite, no optimizer
\* step is applied for that batch.
C13_NoStepOnNonFinite ==
    (LossesComputed /\ ~net_out.finite) => applied = <<>> /\ opt_steps = 0

\* An optimizer step has applied a gradient that is not finite.
C13_Witness ==
    /\ upc = "done"
    /\ ~net_out.finite
    /\ Len(applied) = 1 /\ ~applied[1].finite

\* C14: an actor whose environment step raises is dead from then on: it pushes
\* nothing further, no end marker in particular, and is never restarted; the
\* step in which it dies changes nothing of the queue or of the learner; and
\* the learner, when it is at its get and some entry is queued, can still pop.
C14_CrashIsSilent ==
    /\ [][\A a \in Actors :
            /\ Crashed(a) => (Crashed(a))' /\ pushed'[a] = pushed[a]
            /\ (~Crashed(a) /\ (Crashed(a))') =>
                  UNCHANGED <<pushed, train_queue, learnerVars>>
         ]_vars
    /\ [](\A a \in Actors :
            Crashed(a) =>
                /\ SelectKind(pushed[a], "end") = <<>>
                /\ (lpc = "get" /\ QueueSize > 0) => ENABLED LearnerNext)

\* An actor has died after pushing entries, the learner has popped all of them
\* and an entry of another actor, has run an update and is back at its get
\* with a further entry of the other actor queued.
C14_Witness ==
    \E a \in Actors :
        /\ Crashed(a)
        /\ pushed[a] # <<>> /\ train_queue[a] = <<>>
        /\ lpc = "get" /\ Len(trained) >= 1
        /\ \E b \in Actors \ {a} : popped[b] # <<>> /\ train_queue[b] # <<>>

\* Whether this step is an update.
Updates == opt_steps' = opt_steps + 1

\* C16: every emission, a report handed to the tracker or the metrics of an
\* update, is tagged with the current step_idx, which is not smaller than the
\* tag of the emission before it; the tag of an update's metrics is greater than
\* the tag of the update before it; step_idx never decreases and nothing else
\* emits.
C16_StepIndexMonotone ==
    [][/\ step_idx' >= step_idx
       /\ PopsReport => /\ last_emit' = step_idx' /\ last_emit' >= last_emit
                        /\ last_track' = last_track
       /\ Updates => /\ last_emit' = step_idx' /\ last_emit' >= last_emit
                     /\ last_track' = step_idx' /\ last_track' > last_track
       /\ (~PopsReport /\ ~Updates) => UNCHANGED <<last_emit, last_track>>
      ]_vars

\* Two updates have run, a further Transition has been popped and a report
\* popped after it has been handed to the tracker with the greater step index.
C16_Witness ==
    /\ opt_steps = 2
    /\ last_track = 2 * BATCH_SIZE
    /\ last_emit = last_track + 1
    /\ train_entry.kind = "reward"

\* The experience entries the learner has popped so far, all actors together.
ExpPopped == SumOver([a \in Actors |-> Len(SelectKind(popped[a], "exp"))], Actors)

\* C20: whenever the learner is at its get, step_idx is the number of
\* Transitions popped so far, whatever reports and end markers were popped, the
\* batch holds step_idx mod BATCH_SIZE entries and step_idx div BATCH_SIZE
\* updates have run; an update is about to run exactly when the batch holds
\* BATCH_SIZE entries, at a step index that is a positive multiple of
\* BATCH_SIZE, on the Transitions popped since the update before it; the k-th
\* update has run at step index k * BATCH_SIZE.
C20_StepCounts ==
    /\ step_idx = ExpPopped
    /\ lpc \in {"get", "stopped"} =>
          /\ Len(batch) = step_idx % BATCH_SIZE
          /\ opt_steps = step_idx \div BATCH_SIZE
    /\ lpc = "update" =>
          /\ step_idx = (opt_steps + 1) * BATCH_SIZE
          /\ Len(batch) = BATCH_SIZE
    /\ last_track = opt_steps * BATCH_SIZE
    /\ Len(trained) = opt_steps
    /\ \A a \in Actors :
          LET mine == SelectKind(popped[a], "exp")
              used == SelectActor(Consumed, a)
              held == SelectActor(batch, a)
          IN /\ used \o held = mine
             /\ Len(used) + Len(held) = Len(mine)

\* The learner is at its get after two updates, a report aside, with one
\* Transition in the batch.
C20_Witness ==
    /\ lpc = "get"
    /\ opt_steps = 2
    /\ step_idx = 2 * BATCH_SIZE + 1
    /\ Len(batch) = 1
    /\ \E a \in Actors : SelectKind(popped[a], "reward") # <<>>

\* Whether this step pops an experience entry.
PopsExp == train_entry'.kind = "exp" /\ popped' # popped
\* The optimizer steps and the step_idx at the time the put of the entry this
\* step pops had completed.
PoppedPutAt == put_at[train_entry'.actor][Len(popped'[train_entry'.actor])]
\* ceil((C - 1) / BATCH_SIZE) for the queue capacity C
StalenessBound == (QueueMaxSize - 1 + BATCH_SIZE - 1) \div BATCH_SIZE

ReportsOf(a) == SelectKind(pushed[a], "reward")
ReportedNow(a) == {i \in 1..Len(ReportsOf(a)) : ReportsOf(a)[i].seq = n_exp[a]}
Alive(a) == pc[a] \notin {"done", "crashed"}
ActorPut(a) == ActorPutReward(a) \/ ActorPutExp(a) \/ ActorPutEnd(a)
ExpPushed == SumOver([a \in Actors |-> Len(SelectKind(pushed[a], "exp"))], Actors)
NoDeadlock ==
    (lpc # "stopped" /\ \E a \in Actors : Alive(a)) =>
        /\ QueueSize > 0 \/ QueueSize < QueueMaxSize
        /\ QueueSize > 0 => ENABLED LearnerNext
        /\ QueueSize < QueueMaxSize => \A a \in Actors : AtPut(a) => ENABLED ActorPut(a)
====
